---- MODULE Spec2Model ----
(***************************************************************************)
(* Model of the two FFI adapters of redismodule-rs:                        *)
(*   src/src/context/cluster_message.rs  (cluster messaging)               *)
(*   src/src/context/command_filter.rs   (command filters)                 *)
(* Each adapter keeps a process-wide HashMap behind a std::sync::Mutex to  *)
(* recover the module's callback from the single raw callback the host     *)
(* knows.  Threads are the host's threads: each either runs a wrapper      *)
(* operation on behalf of a module command or delivers a raw callback.     *)
(***************************************************************************)
EXTENDS Integers, Sequences, FiniteSets, TLC

\* ------------------------------------------------------------- bounds
MaxMsgType == 1         \* message types are 0..MaxMsgType (u8 in the code)
NumCallbacks == 2       \* distinct fn pointers a module registers
MaxHandle == 2          \* distinct non-null filter handles the host hands out
MaxMemLen == 3          \* bytes of host memory behind a raw pointer
MaxPayloadLen == 2      \* bytes of a payload buffer
MaxTargetLen == 2       \* bytes of a target_id passed to send_cluster_message

\* -------------------------------------------------- program constants
NULL == 0               \* the null pointer
REDISMODULE_OK == 0     \* raw::REDISMODULE_OK

\* Two host threads may be inside the wrapper at once: the least number
\* that has one thread wait for a lock another holds.
Threads == {1, 2}
MsgTypes == 0..MaxMsgType
Callbacks == 1..NumCallbacks
Handles == 1..MaxHandle

VARIABLES
    adapter,        \* which adapter the behaviour exercises (they share no state)
    callbacks,      \* CLUSTER_MESSAGE_CALLBACKS: set of <<message_type, callback>>
    cmMutex,        \* its Mutex: [holder: set of threads, poisoned: BOOLEAN]
    hostReceivers,  \* host side: message types with a receiver registered
    clusterEnabled, \* host side: whether the server runs in cluster mode
    latest,         \* history: per message type, the callback of the last insert
    registry,       \* FILTER_REGISTRY: set of <<filter pointer, callback>>
    fMutex,         \* its Mutex
    hostFilters,    \* host side: filter handles currently registered
    active,         \* history: <<handle, callback>> returned by register and not
                    \* yet unregistered with Ok
    pc,             \* per thread: position in the operation it runs
    frame,          \* per thread: arguments and locals of that operation
    calls,          \* per thread: user callbacks invoked by the running dispatch
    result,         \* per thread: how the operation ended
    aborted,        \* the process aborted (panic reached an extern "C" boundary)
    hostSend        \* host side, per thread: the calls of
                    \* RedisModule_SendClusterMessage its running operation made

vars == <<adapter, callbacks, cmMutex, hostReceivers, clusterEnabled, latest,
          registry, fMutex, hostFilters, active, pc, frame, calls, result,
          aborted, hostSend>>

clusterVars == <<callbacks, cmMutex, hostReceivers, latest>>
filterVars == <<registry, fMutex, hostFilters, active>>

\* ------------------------------------------------------------ HashMap
\* Mutant: an insert that keeps the entry already stored under the key.
HashMapInsert_KeepOld(map, k, v) == map \cup {<<k, v>>}

\* std::collections::HashMap as the set of its <<key, value>> entries.
HashMapInsert(map, k, v) == {p \in map : p[1] # k} \cup {<<k, v>>}

HashMapRemove(map, k) == {p \in map : p[1] # k}

\* Mutant: a lookup that ignores the key.
HashMapGet_AnyKey(map, k) == {p[2] : p \in map}

\* get(&k): the values stored under k (empty: None).
HashMapGet(map, k) == {p[2] : p \in {q \in map : q[1] = k}}

HashMapKeys(map) == {p[1] : p \in map}

\* -------------------------------------------------------------- Mutex
NewMutex == [holder |-> {}, poisoned |-> FALSE]

\* lock() blocks until no thread holds the mutex.
MutexCanLock(m) == m.holder = {}

MutexLock(m, th) == [m EXCEPT !.holder = m.holder \cup {th}]

\* MutexGuard dropped normally.
MutexUnlock(m, th) == [m EXCEPT !.holder = m.holder \ {th}]

\* MutexGuard dropped while the thread is panicking: the mutex is poisoned.
MutexUnlockPanicking(m, th) == [holder |-> m.holder \ {th}, poisoned |-> TRUE]

\* ------------------------------------------------- raw pointers, bytes
\* A raw pointer is null or points at host memory (a sequence of bytes).
NullPtr == [null |-> TRUE, mem |-> <<>>]

PtrTo(mem) == [null |-> FALSE, mem |-> mem]

RECURSIVE SeqsUpTo(_, _)
SeqsUpTo(S, n) ==
    IF n = 0 THEN {<<>>}
    ELSE LET shorter == SeqsUpTo(S, n - 1)
         IN  shorter \cup {Append(s, b) : s \in shorter, b \in S}

\* Bytes that make valid and invalid UTF-8: 'A', a lone continuation byte
\* (0xA9), the lead byte of a two-byte sequence (0xC3; 0xC3 0xA9 is U+00E9),
\* and the terminator.
SenderBytes == {0, 65, 169, 195}

PayloadBytes == {0, 65}

\* Host memory holding a C string: it always has a terminator within it.
CStringMems == {m \in SeqsUpTo(SenderBytes, MaxMemLen) :
                    m # <<>> /\ m[Len(m)] = 0}

\* CStr::from_ptr: the bytes before the first NUL.
RECURSIVE CStrFromPtr(_)
CStrFromPtr(mem) ==
    IF mem = <<>> \/ Head(mem) = 0 THEN <<>>
    ELSE <<Head(mem)>> \o CStrFromPtr(Tail(mem))

IsCont(s, i) == i <= Len(s) /\ s[i] >= 128 /\ s[i] <= 191

Drop(s, n) == SubSeq(s, n + 1, Len(s))

\* CStr::to_str: UTF-8 validation (core::str::from_utf8).
RECURSIVE IsUtf8(_)
IsUtf8(s) ==
    IF s = <<>> THEN TRUE
    ELSE LET b == s[1] IN
         IF b < 128 THEN IsUtf8(Tail(s))
         ELSE IF b >= 194 /\ b <= 223
              THEN IsCont(s, 2) /\ IsUtf8(Drop(s, 2))
         ELSE IF b >= 224 /\ b <= 239
              THEN /\ IsCont(s, 2) /\ IsCont(s, 3)
                   /\ (b = 224 => s[2] >= 160)
                   /\ (b = 237 => s[2] <= 159)
                   /\ IsUtf8(Drop(s, 3))
         ELSE IF b >= 240 /\ b <= 244
              THEN /\ IsCont(s, 2) /\ IsCont(s, 3) /\ IsCont(s, 4)
                   /\ (b = 240 => s[2] >= 144)
                   /\ (b = 244 => s[2] <= 143)
                   /\ IsUtf8(Drop(s, 4))
         ELSE FALSE

\* sender_id_str of raw_cluster_message_callback (a &str, as its bytes).
SenderIdStr(ptr) ==
    IF ptr.null THEN <<>>
    ELSE LET s == CStrFromPtr(ptr.mem) IN IF IsUtf8(s) THEN s ELSE <<>>

\* Mutant: the slice takes the whole buffer instead of len bytes.
PayloadSlice_WholeBuffer(ptr, len) ==
    IF ptr.null \/ len = 0 THEN <<>> ELSE ptr.mem

\* payload_slice of raw_cluster_message_callback.
PayloadSlice(ptr, len) ==
    IF ptr.null \/ len = 0 THEN <<>> ELSE SubSeq(ptr.mem, 1, len)

\* What the host may pass to raw_cluster_message_callback: any message type,
\* a null or NUL-terminated sender, a null payload or one of at least len bytes.
SenderPtrs == {NullPtr} \cup {PtrTo(m) : m \in CStringMems}

RawMessages ==
    [t : MsgTypes, sender : SenderPtrs, payload : {NullPtr},
     len : 0..MaxPayloadLen]
    \cup
    UNION {[t : MsgTypes, sender : SenderPtrs, payload : {PtrTo(buf)},
            len : 0..Len(buf)] : buf \in SeqsUpTo(PayloadBytes, MaxPayloadLen)}

\* The message the host delivers in the concurrent specification: one sender
\* and payload, any message type.
PlainMessages ==
    [t : MsgTypes, sender : {PtrTo(<<65, 0>>)}, payload : {PtrTo(<<65>>)},
     len : {1}]

\* ------------------------------------------------------------- frames
NoFrame == [op |-> "none", t |-> 0, cb |-> 0, handle |-> 0, status |-> "none",
            todo |-> {}, sender |-> <<>>, payload |-> <<>>,
            rawSender |-> NullPtr, rawPayload |-> NullPtr,
            len |-> 0, target |-> [some |-> FALSE, bytes |-> <<>>]]

Init ==
    /\ adapter \in {"cluster_message", "command_filter"}
    /\ callbacks = {}
    /\ cmMutex = NewMutex
    /\ hostReceivers = {}
    /\ clusterEnabled \in BOOLEAN
    /\ latest = [t \in MsgTypes |-> 0]
    /\ registry = {}
    /\ fMutex = NewMutex
    /\ hostFilters = {}
    /\ active = {}
    /\ pc = [th \in Threads |-> "idle"]
    /\ frame = [th \in Threads |-> NoFrame]
    /\ calls = [th \in Threads |-> <<>>]
    /\ result = [th \in Threads |-> "none"]
    /\ aborted = FALSE
    /\ hostSend = [th \in Threads |-> <<>>]

\* ------------------------------------------ per-thread state updates
Goto(th, label) == pc' = [pc EXCEPT ![th] = label]

SetResult(th, r) == result' = [result EXCEPT ![th] = r]

SetFrame(th, f) == frame' = [frame EXCEPT ![th] = f]

Invoke(th, call) == calls' = [calls EXCEPT ![th] = Append(calls[th], call)]

\* =====================================================================
\* cluster_message.rs
\* =====================================================================

\* register_cluster_message_receiver(message_type, callback) up to the
\* lock() of register_callback.  A poisoned mutex makes lock() return Err,
\* which map_err turns into the RedisError the `?` returns (the guard inside
\* the error is dropped at once).
RegisterClusterMessageReceiver(th, t, cb) ==
    /\ adapter = "cluster_message"
    /\ ~aborted
    /\ pc[th] = "idle"
    /\ MutexCanLock(cmMutex)
    /\ SetFrame(th, [NoFrame EXCEPT
                        !.op = "register_cluster_message_receiver",
                        !.t = t, !.cb = cb])
    /\ IF cmMutex.poisoned
       THEN /\ SetResult(th, "Err")
            /\ Goto(th, "done")
            /\ UNCHANGED cmMutex
       ELSE /\ cmMutex' = MutexLock(cmMutex, th)
            /\ Goto(th, "rcm_insert")
            /\ UNCHANGED result
    /\ UNCHANGED <<adapter, callbacks, hostReceivers, clusterEnabled, latest,
                   filterVars, calls, aborted, hostSend>>

\* register_callback: callbacks.insert(message_type, callback); Ok(()) and
\* the guard is dropped.
RegisterCallbackInsert(th) ==
    /\ ~aborted
    /\ pc[th] = "rcm_insert"
    /\ callbacks' = HashMapInsert(callbacks, frame[th].t, frame[th].cb)
    /\ latest' = [latest EXCEPT ![frame[th].t] = frame[th].cb]
    /\ cmMutex' = MutexUnlock(cmMutex, th)
    /\ Goto(th, "rcm_host")
    /\ UNCHANGED <<adapter, hostReceivers, clusterEnabled, filterVars, frame,
                   calls, result, aborted, hostSend>>

\* RedisModule_RegisterClusterMessageReceiver(ctx, message_type, raw callback):
\* returns nothing; the host records the receiver only in cluster mode.
HostRegisterClusterMessageReceiver(t) ==
    IF clusterEnabled THEN hostReceivers \cup {t} ELSE hostReceivers

\* register_cluster_message_receiver: the host call, then Ok(()).
RegisterClusterReceiverHost(th) ==
    /\ ~aborted
    /\ pc[th] = "rcm_host"
    /\ hostReceivers' = HostRegisterClusterMessageReceiver(frame[th].t)
    /\ SetResult(th, "Ok")
    /\ Goto(th, "done")
    /\ UNCHANGED <<adapter, callbacks, cmMutex, clusterEnabled, latest,
                   filterVars, frame, calls, aborted, hostSend>>

\* raw_cluster_message_callback(ctx, sender_id, message_type, payload, len) up
\* to get_callbacks().lock(): the conversions, then the lock.  On a poisoned
\* mutex it logs a warning and returns.
RawClusterMessageCallback(th, msg) ==
    /\ adapter = "cluster_message"
    /\ ~aborted
    /\ pc[th] = "idle"
    /\ MutexCanLock(cmMutex)
    /\ SetFrame(th, [NoFrame EXCEPT
                        !.op = "raw_cluster_message_callback",
                        !.t = msg.t,
                        !.rawSender = msg.sender,
                        !.rawPayload = msg.payload,
                        !.len = msg.len,
                        !.sender = SenderIdStr(msg.sender),
                        !.payload = PayloadSlice(msg.payload, msg.len)])
    /\ IF cmMutex.poisoned
       THEN /\ SetResult(th, "LockFailed")
            /\ Goto(th, "done")
            /\ UNCHANGED cmMutex
       ELSE /\ cmMutex' = MutexLock(cmMutex, th)
            /\ Goto(th, "cm_lookup")
            /\ UNCHANGED result
    /\ UNCHANGED <<adapter, callbacks, hostReceivers, clusterEnabled, latest,
                   filterVars, calls, aborted, hostSend>>

\* callbacks.get(&message_type): Some(callback) is called with the converted
\* arguments; None logs at debug level.
RawClusterLookup(th) ==
    /\ ~aborted
    /\ pc[th] = "cm_lookup"
    /\ LET found == HashMapGet(callbacks, frame[th].t) IN
       IF found = {}
       THEN /\ Goto(th, "cm_return")
            /\ UNCHANGED <<frame, calls>>
       ELSE \E cb \in found :
            /\ SetFrame(th, [frame[th] EXCEPT !.cb = cb])
            /\ Invoke(th, [cb |-> cb, sender |-> frame[th].sender,
                           t |-> frame[th].t, payload |-> frame[th].payload])
            /\ Goto(th, "cm_incb")
    /\ UNCHANGED <<adapter, clusterVars, clusterEnabled, filterVars, result,
                   aborted, hostSend>>

\* The module's callback returns.
ClusterCallbackReturns(th) ==
    /\ ~aborted
    /\ pc[th] = "cm_incb"
    /\ Goto(th, "cm_return")
    /\ UNCHANGED <<adapter, clusterVars, clusterEnabled, filterVars, frame,
                   calls, result, aborted, hostSend>>

\* The module's callback panics: unwinding drops the guard held by
\* raw_cluster_message_callback, which poisons the mutex.
ClusterCallbackPanics(th) ==
    /\ ~aborted
    /\ pc[th] = "cm_incb"
    /\ cmMutex' = MutexUnlockPanicking(cmMutex, th)
    /\ SetResult(th, "CallbackPanic")
    /\ Goto(th, "unwinding")
    /\ UNCHANGED <<adapter, callbacks, hostReceivers, clusterEnabled, latest,
                   filterVars, frame, calls, aborted, hostSend>>

\* raw_cluster_message_callback returns: the guard is dropped.
RawClusterReturn(th) ==
    /\ ~aborted
    /\ pc[th] = "cm_return"
    /\ cmMutex' = MutexUnlock(cmMutex, th)
    /\ SetResult(th, "Returned")
    /\ Goto(th, "done")
    /\ UNCHANGED <<adapter, callbacks, hostReceivers, clusterEnabled, latest,
                   filterVars, frame, calls, aborted, hostSend>>

\* =====================================================================
\* both adapters: how an operation ends
\* =====================================================================

\* The caller takes the result; the thread is free for the next operation.
Return(th) ==
    /\ ~aborted
    /\ pc[th] = "done"
    /\ Goto(th, "idle")
    /\ SetFrame(th, NoFrame)
    /\ calls' = [calls EXCEPT ![th] = <<>>]
    /\ SetResult(th, "none")
    /\ hostSend' = [hostSend EXCEPT ![th] = <<>>]
    /\ UNCHANGED <<adapter, clusterVars, clusterEnabled, filterVars, aborted>>

\* A panic unwinds (dropping the guards on its way, which is what poisons a
\* mutex) up to the extern "C" function the host called, where the process
\* aborts.  Until it has, the other threads keep running.
Abort(th) ==
    /\ ~aborted
    /\ pc[th] = "unwinding"
    /\ aborted' = TRUE
    /\ UNCHANGED <<adapter, clusterVars, clusterEnabled, filterVars, pc, frame,
                   calls, result, hostSend>>

\* =====================================================================
\* command_filter.rs
\* =====================================================================

\* RedisModule_RegisterCommandFilter: the handles the host may return, null
\* (no filter registered) or one not in use.
HostFilterHandles == {NULL} \cup (Handles \ hostFilters)

HostRegisterCommandFilter(h) ==
    IF h = NULL THEN hostFilters ELSE hostFilters \cup {h}

\* register_command_filter(callback, flags): the host call, which returns
\* filter_ptr.
RegisterCommandFilter(th, cb, h) ==
    /\ adapter = "command_filter"
    /\ ~aborted
    /\ pc[th] = "idle"
    /\ h \in HostFilterHandles
    /\ hostFilters' = HostRegisterCommandFilter(h)
    /\ SetFrame(th, [NoFrame EXCEPT !.op = "register_command_filter",
                                    !.cb = cb, !.handle = h])
    /\ Goto(th, "rf_lock")
    /\ UNCHANGED <<adapter, clusterVars, clusterEnabled, registry, fMutex,
                   active, calls, result, aborted, hostSend>>

\* Mutant: the registry is used without taking its lock.
FilterLockUnwrap_NoLock(th, locked) ==
    /\ Goto(th, locked)
    /\ UNCHANGED <<fMutex, result>>

\* get_filter_registry().lock().unwrap(): a poisoned mutex makes unwrap panic
\* (the guard inside the error is dropped by the unwinding).
FilterLockUnwrap(th, locked) ==
    /\ MutexCanLock(fMutex)
    /\ IF fMutex.poisoned
       THEN /\ SetResult(th, "LockPanic")
            /\ Goto(th, "unwinding")
            /\ UNCHANGED fMutex
       ELSE /\ fMutex' = MutexLock(fMutex, th)
            /\ Goto(th, locked)
            /\ UNCHANGED result

RegisterFilterLock(th) ==
    /\ ~aborted
    /\ pc[th] = "rf_lock"
    /\ FilterLockUnwrap(th, "rf_insert")
    /\ UNCHANGED <<adapter, clusterVars, clusterEnabled, registry, hostFilters,
                   active, frame, calls, aborted, hostSend>>

\* The registrations that count as active once register_command_filter has
\* returned handle h for callback cb (a null handle is no registration).
ActiveAfterRegister(h, cb) ==
    IF h = NULL THEN active ELSE active \cup {<<h, cb>>}

\* registry.insert(filter_ptr as usize, callback); filter_ptr is returned and
\* the guard dropped.
RegisterFilterInsert(th) ==
    /\ ~aborted
    /\ pc[th] = "rf_insert"
    /\ registry' = HashMapInsert(registry, frame[th].handle, frame[th].cb)
    /\ fMutex' = MutexUnlock(fMutex, th)
    /\ active' = ActiveAfterRegister(frame[th].handle, frame[th].cb)
    /\ SetResult(th, "Handle")
    /\ Goto(th, "done")
    /\ UNCHANGED <<adapter, clusterVars, clusterEnabled, hostFilters, frame,
                   calls, aborted, hostSend>>

\* RedisModule_UnregisterCommandFilter: Ok when the filter is registered (and
\* it then no longer is), Err otherwise.
HostUnregisterStatus(h) == IF h \in hostFilters THEN "Ok" ELSE "Err"

\* unregister_command_filter(filter): the host call; a status other than Ok
\* returns the error.
UnregisterCommandFilter(th, h) ==
    /\ adapter = "command_filter"
    /\ ~aborted
    /\ pc[th] = "idle"
    /\ hostFilters' = hostFilters \ {h}
    /\ SetFrame(th, [NoFrame EXCEPT !.op = "unregister_command_filter",
                                    !.handle = h,
                                    !.status = HostUnregisterStatus(h)])
    /\ IF HostUnregisterStatus(h) = "Ok"
       THEN /\ Goto(th, "uf_lock")
            /\ UNCHANGED result
       ELSE /\ SetResult(th, "Err")
            /\ Goto(th, "done")
    /\ UNCHANGED <<adapter, clusterVars, clusterEnabled, registry, fMutex,
                   active, calls, aborted, hostSend>>

UnregisterFilterLock(th) ==
    /\ ~aborted
    /\ pc[th] = "uf_lock"
    /\ FilterLockUnwrap(th, "uf_remove")
    /\ UNCHANGED <<adapter, clusterVars, clusterEnabled, registry, hostFilters,
                   active, frame, calls, aborted, hostSend>>

\* The registrations of handle h stop being active when unregister returns Ok.
Deactivate(regs, h) == {r \in regs : r[1] # h}

\* registry.remove(&(filter as usize)); Ok(()) and the guard is dropped.
UnregisterFilterRemove(th) ==
    /\ ~aborted
    /\ pc[th] = "uf_remove"
    /\ registry' = HashMapRemove(registry, frame[th].handle)
    /\ fMutex' = MutexUnlock(fMutex, th)
    /\ active' = Deactivate(active, frame[th].handle)
    /\ SetResult(th, "Ok")
    /\ Goto(th, "done")
    /\ UNCHANGED <<adapter, clusterVars, clusterEnabled, hostFilters, frame, calls,
                   aborted, hostSend>>

\* raw_filter_callback(fctx), which the host calls on behalf of one of its
\* registered filters (h) for a command it executes, up to
\* get_filter_registry().lock().unwrap(); the iteration then runs over the
\* registry's entries.
RawFilterCallback(th, h) ==
    /\ adapter = "command_filter"
    /\ ~aborted
    /\ pc[th] = "idle"
    /\ h \in hostFilters
    /\ SetFrame(th, [NoFrame EXCEPT
                        !.op = "raw_filter_callback",
                        !.handle = h,
                        !.todo = IF fMutex.poisoned THEN {} ELSE registry])
    /\ FilterLockUnwrap(th, "f_iter")
    /\ UNCHANGED <<adapter, clusterVars, clusterEnabled, registry, hostFilters,
                   active, calls, aborted, hostSend>>

\* for callback in registry.values(): the next entry's callback is called;
\* after the last one the function returns and the guard is dropped.
RawFilterIter(th) ==
    /\ ~aborted
    /\ pc[th] = "f_iter"
    /\ IF frame[th].todo = {}
       THEN /\ fMutex' = MutexUnlock(fMutex, th)
            /\ SetResult(th, "Returned")
            /\ Goto(th, "done")
            /\ UNCHANGED <<frame, calls>>
       ELSE \E e \in frame[th].todo :
            /\ SetFrame(th, [frame[th] EXCEPT !.todo = @ \ {e},
                                             !.cb = e[2]])
            /\ Invoke(th, [cb |-> e[2]])
            /\ Goto(th, "f_incb")
            /\ UNCHANGED <<fMutex, result>>
    /\ UNCHANGED <<adapter, clusterVars, clusterEnabled, registry, hostFilters,
                   active, aborted, hostSend>>

\* The module's filter callback returns.
FilterCallbackReturns(th) ==
    /\ ~aborted
    /\ pc[th] = "f_incb"
    /\ Goto(th, "f_iter")
    /\ UNCHANGED <<adapter, clusterVars, clusterEnabled, filterVars, frame,
                   calls, result, aborted, hostSend>>

\* The module's filter callback panics: unwinding drops the guard held by
\* raw_filter_callback, which poisons the mutex.
FilterCallbackPanics(th) ==
    /\ ~aborted
    /\ pc[th] = "f_incb"
    /\ fMutex' = MutexUnlockPanicking(fMutex, th)
    /\ SetResult(th, "CallbackPanic")
    /\ Goto(th, "unwinding")
    /\ UNCHANGED <<adapter, clusterVars, clusterEnabled, registry, hostFilters,
                   active, frame, calls, aborted, hostSend>>

\* ---------------------------------------------------------------------
\* send_cluster_message(target_id, message_type, message)
\* ---------------------------------------------------------------------
\* Option<&str>: None, or Some(text) given as its bytes (a &str may hold NUL).
NoTarget == [some |-> FALSE, bytes |-> <<>>]

SomeTarget(bytes) == [some |-> TRUE, bytes |-> bytes]

Targets == {NoTarget} \cup
           {SomeTarget(b) : b \in SeqsUpTo(PayloadBytes, MaxTargetLen)}

Messages == SeqsUpTo(PayloadBytes, MaxPayloadLen)

\* What RedisModule_SendClusterMessage may return: REDISMODULE_OK,
\* REDISMODULE_ERR (1), or some other int.
HostStatuses == {REDISMODULE_OK, 1, 2}

\* CString::new(id) is Err when id has an interior NUL byte.
CStringNewIsErr(bytes) == \E i \in 1..Len(bytes) : bytes[i] = 0

\* CString::new(id).as_ptr(): the bytes followed by the terminator.
CStringAsPtr(bytes) == PtrTo(Append(bytes, 0))

\* target_ptr of send_cluster_message.
TargetPtr(target) ==
    IF target.some THEN CStringAsPtr(target.bytes) ELSE NullPtr

\* Mutant: only REDISMODULE_ERR (1) is taken for a failure.
SendResult_OnlyErrFails(status) == IF status = 1 THEN "Err" ELSE "Ok"

\* if result == raw::REDISMODULE_OK as i32 { Ok(()) } else { Err(..) }
SendResult(status) == IF status = REDISMODULE_OK THEN "Ok" ELSE "Err"

\* send_cluster_message, whole: it touches neither table.  status is what the
\* host returns if it is called.
SendClusterMessage(th, target, t, message, status) ==
    /\ adapter = "cluster_message"
    /\ ~aborted
    /\ pc[th] = "idle"
    /\ SetFrame(th, [NoFrame EXCEPT !.op = "send_cluster_message",
                                    !.target = target, !.t = t,
                                    !.payload = message])
    /\ IF target.some /\ CStringNewIsErr(target.bytes)
       THEN /\ SetResult(th, "Err")
            /\ UNCHANGED hostSend
       ELSE /\ hostSend' = [hostSend EXCEPT ![th] =
                   <<[target |-> TargetPtr(target), t |-> t,
                      message |-> PtrTo(message), len |-> Len(message),
                      ret |-> status]>>]
            /\ SetResult(th, SendResult(status))
    /\ Goto(th, "done")
    /\ UNCHANGED <<adapter, clusterVars, clusterEnabled, filterVars, calls,
                   aborted>>

\* =====================================================================
\* module callbacks that call back into the adapter
\* =====================================================================
\* The module's callback runs while raw_cluster_message_callback /
\* raw_filter_callback holds the table's guard.  A callback that itself uses
\* the adapter reaches the table's lock() on the thread that holds the mutex.

\* Positions of a thread that is inside its callback and at lock() again.
ClusterRelockPcs == {"cm_incb_register_lock"}

FilterRelockPcs ==
    {"f_incb_register_lock", "f_incb_unregister_lock", "f_incb_hook_lock"}

\* The cluster callback calls ctx.register_cluster_message_receiver(t, cb)
\* on the Context it was given: register_callback goes to
\* get_callbacks().lock().
ClusterCallbackRegisters(th, t, cb) ==
    /\ adapter = "cluster_message"
    /\ ~aborted
    /\ pc[th] = "cm_incb"
    /\ Goto(th, "cm_incb_register_lock")
    /\ UNCHANGED <<adapter, clusterVars, clusterEnabled, filterVars, frame,
                   calls, result, aborted, hostSend>>

\* The filter callback calls register_command_filter(cb, flags): the host
\* call returns filter_ptr, then get_filter_registry().lock().
FilterCallbackRegisters(th, cb, h) ==
    /\ adapter = "command_filter"
    /\ ~aborted
    /\ pc[th] = "f_incb"
    /\ h \in HostFilterHandles
    /\ hostFilters' = HostRegisterCommandFilter(h)
    /\ Goto(th, "f_incb_register_lock")
    /\ UNCHANGED <<adapter, clusterVars, clusterEnabled, registry, fMutex,
                   active, frame, calls, result, aborted, hostSend>>

\* The filter callback calls unregister_command_filter(filter) for a filter
\* the host knows: the host returns Ok, then get_filter_registry().lock().
FilterCallbackUnregisters(th, h) ==
    /\ adapter = "command_filter"
    /\ ~aborted
    /\ pc[th] = "f_incb"
    /\ HostUnregisterStatus(h) = "Ok"
    /\ hostFilters' = hostFilters \ {h}
    /\ Goto(th, "f_incb_unregister_lock")
    /\ UNCHANGED <<adapter, clusterVars, clusterEnabled, registry, fMutex,
                   active, frame, calls, result, aborted, hostSend>>

\* The filter callback issues a command; the host passes it through the
\* filter hook on the same thread: raw_filter_callback goes to
\* get_filter_registry().lock().
FilterCallbackIssuesCommand(th) ==
    /\ adapter = "command_filter"
    /\ ~aborted
    /\ pc[th] = "f_incb"
    /\ hostFilters # {}
    /\ Goto(th, "f_incb_hook_lock")
    /\ UNCHANGED <<adapter, clusterVars, clusterEnabled, filterVars, frame,
                   calls, result, aborted, hostSend>>

\* Mutex::lock() on the thread that holds the mutex does not return: it
\* blocks for ever (no step of that thread) or it panics.  The panic unwinds
\* through the callback and the dispatch, dropping the guard.
ClusterRelockPanics(th) ==
    /\ ~aborted
    /\ pc[th] \in ClusterRelockPcs
    /\ cmMutex' = MutexUnlockPanicking(cmMutex, th)
    /\ SetResult(th, "RelockPanic")
    /\ Goto(th, "unwinding")
    /\ UNCHANGED <<adapter, callbacks, hostReceivers, clusterEnabled, latest,
                   filterVars, frame, calls, aborted, hostSend>>

FilterRelockPanics(th) ==
    /\ ~aborted
    /\ pc[th] \in FilterRelockPcs
    /\ fMutex' = MutexUnlockPanicking(fMutex, th)
    /\ SetResult(th, "RelockPanic")
    /\ Goto(th, "unwinding")
    /\ UNCHANGED <<adapter, clusterVars, clusterEnabled, registry, hostFilters,
                   active, frame, calls, aborted, hostSend>>

\* =====================================================================
\* specifications
\* =====================================================================
InitCluster == Init /\ adapter = "cluster_message"

InitFilter == Init /\ adapter = "command_filter"

NextCluster ==
    \E th \in Threads :
        \/ \E t \in MsgTypes, cb \in Callbacks :
               RegisterClusterMessageReceiver(th, t, cb)
        \/ RegisterCallbackInsert(th)
        \/ RegisterClusterReceiverHost(th)
        \/ \E msg \in PlainMessages : RawClusterMessageCallback(th, msg)
        \/ RawClusterLookup(th)
        \/ ClusterCallbackReturns(th)
        \/ ClusterCallbackPanics(th)
        \/ RawClusterReturn(th)
        \/ Return(th)
        \/ Abort(th)

NextFilter ==
    \E th \in Threads :
        \/ \E cb \in Callbacks, h \in {NULL} \cup Handles :
               RegisterCommandFilter(th, cb, h)
        \/ RegisterFilterLock(th)
        \/ RegisterFilterInsert(th)
        \/ \E h \in {NULL} \cup Handles : UnregisterCommandFilter(th, h)
        \/ UnregisterFilterLock(th)
        \/ UnregisterFilterRemove(th)
        \/ \E h \in Handles : RawFilterCallback(th, h)
        \/ RawFilterIter(th)
        \/ FilterCallbackReturns(th)
        \/ FilterCallbackPanics(th)
        \/ Return(th)
        \/ Abort(th)

\* The adapters share no state (each has its own table, mutex and host
\* entry points) and a thread runs one operation at a time, so a behaviour
\* that uses both projects onto a behaviour of each: a behaviour of Spec
\* exercises the adapter chosen initially.
Next == NextCluster \/ NextFilter

\* Both adapters, concurrent threads.
Spec == Init /\ [][Next]_vars

\* The cluster-message adapter alone, concurrent threads.
SpecCluster == InitCluster /\ [][NextCluster]_vars

\* The command-filter adapter alone, concurrent threads.
SpecFilter == InitFilter /\ [][NextFilter]_vars

\* One thread delivering every raw message the host may pass (the
\* conversions of raw_cluster_message_callback), with registrations between.
\* The conversions are done before the module's callback runs, so its
\* panicking is left to the concurrent specifications.
TheThread == CHOOSE th \in Threads : TRUE

NextConv ==
    \/ \E t \in MsgTypes, cb \in Callbacks :
           RegisterClusterMessageReceiver(TheThread, t, cb)
    \/ RegisterCallbackInsert(TheThread)
    \/ RegisterClusterReceiverHost(TheThread)
    \/ /\ pc[TheThread] = "idle"
       /\ \E msg \in RawMessages : RawClusterMessageCallback(TheThread, msg)
    \/ RawClusterLookup(TheThread)
    \/ ClusterCallbackReturns(TheThread)
    \/ RawClusterReturn(TheThread)
    \/ Return(TheThread)

SpecConv == InitCluster /\ [][NextConv]_vars

\* send_cluster_message over every target, message and host status.
NextSend ==
    \/ /\ pc[TheThread] = "idle"
       /\ \E target \in Targets, t \in MsgTypes, message \in Messages,
             status \in HostStatuses :
              SendClusterMessage(TheThread, target, t, message, status)
    \/ Return(TheThread)

SpecSend == InitCluster /\ [][NextSend]_vars

\* Both adapters with callbacks that call back into the adapter.  A thread
\* meets its own guard without any help from another thread, so one thread
\* runs the operations.
NextReentrant ==
    \/ \E t \in MsgTypes, cb \in Callbacks :
           RegisterClusterMessageReceiver(TheThread, t, cb)
    \/ RegisterCallbackInsert(TheThread)
    \/ RegisterClusterReceiverHost(TheThread)
    \/ \E msg \in PlainMessages : RawClusterMessageCallback(TheThread, msg)
    \/ RawClusterLookup(TheThread)
    \/ ClusterCallbackReturns(TheThread)
    \/ ClusterCallbackPanics(TheThread)
    \/ \E t \in MsgTypes, cb \in Callbacks :
           ClusterCallbackRegisters(TheThread, t, cb)
    \/ ClusterRelockPanics(TheThread)
    \/ RawClusterReturn(TheThread)
    \/ \E cb \in Callbacks, h \in {NULL} \cup Handles :
           RegisterCommandFilter(TheThread, cb, h)
    \/ RegisterFilterLock(TheThread)
    \/ RegisterFilterInsert(TheThread)
    \/ \E h \in {NULL} \cup Handles : UnregisterCommandFilter(TheThread, h)
    \/ UnregisterFilterLock(TheThread)
    \/ UnregisterFilterRemove(TheThread)
    \/ \E h \in Handles : RawFilterCallback(TheThread, h)
    \/ RawFilterIter(TheThread)
    \/ FilterCallbackReturns(TheThread)
    \/ FilterCallbackPanics(TheThread)
    \/ \E cb \in Callbacks, h \in {NULL} \cup Handles :
           FilterCallbackRegisters(TheThread, cb, h)
    \/ \E h \in Handles : FilterCallbackUnregisters(TheThread, h)
    \/ FilterCallbackIssuesCommand(TheThread)
    \/ FilterRelockPanics(TheThread)
    \/ Return(TheThread)
    \/ Abort(TheThread)

SpecReentrant == Init /\ [][NextReentrant]_vars

\* =====================================================================
\* properties
\* =====================================================================
ClusterDispatch(th) == frame[th].op = "raw_cluster_message_callback"

\* No operation is in progress.
Quiescent == \A th \in Threads : pc[th] \in {"idle", "done"}

\* The callbacks a dispatch has invoked.
CalledCbs(cs) == {cs[i].cb : i \in 1..Len(cs)}

\* C1: whenever no operation is in progress, every entry of the message-type
\* table is for a message type the host has a receiver registered for, and
\* every entry of the filter-handle table is for a handle the host has
\* registered.
C1_EntriesHaveHostRegistration ==
    Quiescent =>
        /\ \A e \in callbacks : e[1] \in hostReceivers
        /\ \A e \in registry : e[1] \in hostFilters

\* Positions at which a thread reads or writes a table (or holds a borrow of
\* one of its values, while the module's callback runs).
ClusterAccessPcs == {"rcm_insert", "cm_lookup", "cm_incb", "cm_return"}

FilterAccessPcs == {"rf_insert", "uf_remove", "f_iter", "f_incb"}

\* C2: a thread that reads or writes a callback table holds that table's
\* mutex, and at most one thread holds a given mutex.
C2_TableAccessUnderLock ==
    /\ Cardinality(cmMutex.holder) <= 1
    /\ Cardinality(fMutex.holder) <= 1
    /\ \A th \in Threads :
        /\ pc[th] \in ClusterAccessPcs => th \in cmMutex.holder
        /\ pc[th] \in FilterAccessPcs => th \in fMutex.holder

\* C2 witness: a thread runs a filter callback inside the iteration, holding
\* the lock, while another thread that has registered with the host waits for
\* the lock to insert.
C2_Witness ==
    \E th, u \in Threads :
        /\ pc[th] = "f_incb"
        /\ pc[u] = "rf_lock"
        /\ fMutex.holder = {th}

\* A step in which th's operation op ends (returns or panics).
Ends(th, op) ==
    /\ frame'[th].op = op
    /\ pc'[th] # pc[th]
    /\ pc'[th] \in {"done", "unwinding"}

\* C3: a raw_filter_callback that ends, other than by the panic of a module
\* callback it ran, has invoked the callback of every active registration
\* (returned by register_command_filter, not yet unregistered with Ok).
C3_ActiveFiltersInvoked ==
    [][\A th \in Threads :
          (Ends(th, "raw_filter_callback") /\ result'[th] # "CallbackPanic")
              => \A r \in active : r[2] \in CalledCbs(calls'[th])]_vars

\* A dispatch whose outcome is decided while the table cannot change: the
\* callback has returned and the lock is still held, or the lock was found
\* poisoned (no insert happens after that).
ClusterDecided(th) ==
    /\ ClusterDispatch(th)
    /\ pc[th] = "cm_return" \/ result[th] = "LockFailed"

\* Exactly the callback registered for the message's type was invoked, once,
\* with that type; nothing if none is registered.
InvokedRegistered(th) ==
    IF HashMapGet(callbacks, frame[th].t) = {}
    THEN calls[th] = <<>>
    ELSE /\ Len(calls[th]) = 1
         /\ HashMapGet(callbacks, frame[th].t) = {calls[th][1].cb}
         /\ calls[th][1].t = frame[th].t

C5_UnregisterResult ==
    [][\A th \in Threads :
          Ends(th, "unregister_command_filter") =>
              IF frame'[th].status = "Ok"
              THEN /\ result'[th] = "Ok"
                   /\ registry' = {e \in registry : e[1] # frame'[th].handle}
              ELSE /\ result'[th] = "Err"
                   /\ registry' = registry]_vars

\* A finished send_cluster_message.
Sent(th) == frame[th].op = "send_cluster_message" /\ pc[th] = "done"

HasNul(bytes) == 0 \in {bytes[i] : i \in 1..Len(bytes)}

\* C6: send_cluster_message with a target_id holding a NUL byte returns Err
\* without calling the host; otherwise it calls the host once and returns Ok
\* exactly when the host returned REDISMODULE_OK, Err for any other status.
C6_SendResult ==
    \A th \in Threads :
        Sent(th) =>
            IF frame[th].target.some /\ HasNul(frame[th].target.bytes)
            THEN result[th] = "Err" /\ hostSend[th] = <<>>
            ELSE /\ Len(hostSend[th]) = 1
                 /\ result[th] \in {"Ok", "Err"}
                 /\ result[th] = "Ok" <=> hostSend[th][1].ret = REDISMODULE_OK

\* C6 witness: a send to a target with an embedded NUL has ended.
C6_Witness ==
    \E th \in Threads :
        /\ Sent(th)
        /\ frame[th].target.some
        /\ HasNul(frame[th].target.bytes)

\* C7: no wrapper operation and no raw callback panics on acquiring its
\* table's lock, whatever the state of the mutex.
C7_NoLockPanic == \A th \in Threads : result[th] # "LockPanic"

\* s is the text of the C string in mem: the bytes before its first NUL.
IsCText(s, mem) ==
    /\ Len(s) < Len(mem)
    /\ mem[Len(s) + 1] = 0
    /\ \A i \in 1..Len(s) : s[i] = mem[i] /\ s[i] # 0

\* C8: the sender id handed to the module's callback is empty when the
\* sender pointer is null or its C string is not valid UTF-8 and the C
\* string's text otherwise; the payload is empty when the payload pointer is
\* null or len is 0 and otherwise the first len bytes of the host's buffer.
C8_ConvertedArguments ==
    \A th \in Threads :
        ClusterDispatch(th) =>
            \A i \in 1..Len(calls[th]) :
                LET c == calls[th][i]
                    f == frame[th]
                IN  /\ IF f.rawSender.null
                       THEN c.sender = <<>>
                       ELSE \/ IsCText(c.sender, f.rawSender.mem) /\ IsUtf8(c.sender)
                            \/ /\ c.sender = <<>>
                               /\ \E n \in 0..(Len(f.rawSender.mem) - 1) :
                                      LET s == SubSeq(f.rawSender.mem, 1, n)
                                      IN  IsCText(s, f.rawSender.mem) /\ ~IsUtf8(s)
                    /\ IF f.rawPayload.null \/ f.len = 0
                       THEN c.payload = <<>>
                       ELSE /\ Len(c.payload) = f.len
                            /\ \A j \in 1..f.len :
                                   c.payload[j] = f.rawPayload.mem[j]

\* C8 witness: a callback was handed a two-byte UTF-8 sender id and a
\* payload shorter than the host's buffer.
C8_Witness ==
    \E th \in Threads :
        /\ ClusterDispatch(th)
        /\ Len(calls[th]) = 1
        /\ calls[th][1].sender = <<195, 169>>
        /\ Len(calls[th][1].payload) = 1
        /\ Len(frame[th].rawPayload.mem) = 2

\* A step in which the host invokes a raw callback on thread th.
Delivers(th, op) == pc[th] = "idle" /\ frame'[th].op = op

\* C9: when the host invokes a raw callback on behalf of a registration it
\* holds (a filter handle, a message type with a receiver), the table has an
\* entry for that registration.
C9_EntryBeforeDelivery ==
    [][\A th \in Threads :
          /\ Delivers(th, "raw_filter_callback")
                => HashMapGet(registry, frame'[th].handle) # {}
          /\ (Delivers(th, "raw_cluster_message_callback")
                /\ frame'[th].t \in hostReceivers)
                => HashMapGet(callbacks, frame'[th].t) # {}]_vars

RegisterOp == "register_cluster_message_receiver"

\* A step in which th calls register_cluster_message_receiver.
CallsRegister(th) == pc[th] = "idle" /\ frame'[th].op = RegisterOp

\* A step in which th's register_callback inserts.
Inserts(th) == pc[th] = "rcm_insert" /\ pc'[th] # "rcm_insert"

\* The table after the step holds exactly cb for t and, for every other
\* type, what it held before.
Replaced(t, cb) ==
    /\ HashMapGet(callbacks', t) = {cb}
    /\ \A k \in MsgTypes \ {t} :
           HashMapGet(callbacks', k) = HashMapGet(callbacks, k)

AtMostOnePerType ==
    \A t \in MsgTypes : Cardinality(HashMapGet(callbacks, t)) <= 1

\* A delivery that acquired the lock has invoked no callback but the one last
\* inserted for its type.
DispatchedToLatest ==
    \A th \in Threads :
        (ClusterDispatch(th) /\ pc[th] \in {"cm_incb", "cm_return"})
            => CalledCbs(calls[th]) \subseteq {latest[frame[th].t]}

\* C10 as claimed: the table holds at most one callback per type; every call
\* of register_cluster_message_receiver replaces the entry of its type and
\* leaves the other types' entries unchanged; a delivery goes only to the
\* callback last registered for its type.
C10_Original ==
    [][/\ AtMostOnePerType'
       /\ DispatchedToLatest'
       /\ \A th \in Threads :
            /\ CallsRegister(th) => result'[th] # "Err"
            /\ Inserts(th) => Replaced(frame[th].t, frame[th].cb)]_vars

\* C10 as amended: the same for every call that returns Ok; a call that
\* returns Err (the mutex is poisoned) leaves the table unchanged.
C10_ReplaceAndFrame ==
    [][/\ AtMostOnePerType'
       /\ DispatchedToLatest'
       /\ \A th \in Threads :
            /\ (CallsRegister(th) /\ result'[th] = "Err")
                   => callbacks' = callbacks
            /\ Inserts(th) => Replaced(frame[th].t, frame[th].cb)
            /\ (Ends(th, RegisterOp) /\ result'[th] = "Ok")
                   => pc[th] = "rcm_host"]_vars

\* C10 witness: two calls for the same type with different callbacks have
\* both inserted (the second replaced the first) while the other type has an
\* entry too.
C10_Witness ==
    \E th, u \in Threads :
        /\ frame[th].op = RegisterOp /\ pc[th] = "rcm_host"
        /\ frame[u].op = RegisterOp /\ pc[u] = "done" /\ result[u] = "Ok"
        /\ frame[th].t = frame[u].t
        /\ frame[th].cb # frame[u].cb
        /\ HashMapKeys(callbacks) = MsgTypes

\* ---------------------------------------------------------------------
\* C11: every dispatch started by the host eventually finishes and releases
\* the table lock, also when the callback it runs calls
\* register_cluster_message_receiver, register_command_filter or
\* unregister_command_filter, or issues a command that re-enters the filter
\* hook on the same thread; no reachable state has a thread waiting for a
\* table mutex that the same thread already holds.
\* ---------------------------------------------------------------------
SelfWaiting(th) ==
    \/ pc[th] \in ClusterRelockPcs /\ th \in cmMutex.holder
    \/ pc[th] \in FilterRelockPcs /\ th \in fMutex.holder

C11_NoSelfWait == \A th \in Threads : ~SelfWaiting(th)

====
